---- MODULE Spec2Model ----
(***************************************************************************)
(* ReceiverRTLSDR (krakensdr_doa/_receiver/krakenSDR_receiver.py): the     *)
(* acquisition client of the KrakenSDR DAQ.  The caller's thread runs the  *)
(* public methods (eth_connect, eth_close, get_iq_online, set_center_freq, *)
(* set_if_gain, set_if_agc, ctr_iface_init); every configuration command   *)
(* starts a thread running ctr_iface_communication, which is modelled in   *)
(* two steps (acquire and send; recv, release and put).  Socket I/O        *)
(* outcomes, received headers, acknowledgements and the index the shared-  *)
(* memory interface grants are inputs chosen by the environment.           *)
(* In Spec a stream-mode frame receive is one step of its caller; RecvSpec  *)
(* is receive_iq_frame read by read, on a byte stream the peer has sent.    *)
(***************************************************************************)
EXTENDS Integers, Sequences, FiniteSets, TLC

\* ------------------------------------------------------------------ bounds
MaxCalls == 2       \* calls of public methods made by the caller's thread
MaxThreads == 4     \* command threads ever started
header_size == 3    \* IQHeader.header_size, scaled to the three fields the model decodes
receiver_buffer_size == 16  \* 2**18 in receive_iq_frame, scaled to the streams of RecvSpec
MaxPayload == 8     \* longest payload of a frame in RecvSpec, in bytes
MaxTrailing == 2    \* bytes the peer has sent after the frame
MaxZeroReads == 2   \* reads of a closed connection that are followed

\* --------------------------------------------------------- program constants
FrameSize == 128            \* size of a command frame, bytearray(124) + 4
OpcodeSize == 4             \* len("INIT".encode()) etc.
InitPad == 124              \* bytearray(124) of INIT and EXIT
FreqPad == 116              \* bytearray(116) of FREQ
PackQSize == 8              \* struct.pack("Q", ...)
PackISize == 4              \* struct.pack("I", ...)
BytesObjectOverhead == 33   \* sys.getsizeof(b"") of a 64-bit CPython
ComplexSize == 8            \* itemsize of np.complex64
AUTO_GAIN_VALUE == -100     \* variables.AUTO_GAIN_VALUE
DefaultCenterFreq == 100    \* self.daq_center_freq = 100
DefaultRxGain == 0          \* self.daq_rx_gain = 0
MaxGainChannels == FrameSize \div PackISize - 1  \* largest M with 128 - (M + 1) * 4 >= 0

\* ------------------------------------------------------------ input domains
\* Received headers: no channel, one channel of 32-bit samples, one channel of
\* 16-bit samples, and one channel more than a GAIN frame has room for.
Header(chs, cpi, depth) == [chs |-> chs, cpi |-> cpi, depth |-> depth]
Headers == { Header(0, 1, 32), Header(1, 1, 32), Header(1, 1, 16),
             Header(MaxGainChannels + 1, 1, 32) }
NoHeader == [chs |-> 0, cpi |-> 0, depth |-> 0]         \* IQHeader() as constructed
Freqs == {200, -1}                  \* arguments of set_center_freq
Gains == {5, AUTO_GAIN_VALUE}       \* arguments of set_if_gain
Acks == {"FNSD", "FAIL"}            \* leading 4 bytes of an acknowledgement
BuffIndexes == {-1, 0, 1, 2}        \* results of wait_buff_free

VARIABLES
    data_interface,              \* "eth" | "shmem"
    receiver_connection_status,  \* BOOLEAN
    socket_inst,                 \* [id, conn]: the data socket handle
    ctr_iface_socket,            \* [id, conn]: the control socket handle
    next_sock,                   \* identity of the next socket.socket()
    ctr_iface_thread_lock,       \* 0 = free, else the thread holding it
    M,                           \* number of receiver channels
    iq_header,                   \* last decoded header
    iq_samples,                  \* shape of the sample frame; << >> is the int 0
    daq_center_freq, daq_rx_gain, daq_agc,
    data_que,                    \* events put on the UI queue
    threads,                     \* command threads, in order of creation
    ctr_wire,                    \* frames written to the control socket
    ctr_acks,                    \* acknowledgements read from it, counted by status
    data_wire,                   \* tokens written to the data socket
    in_shmem_iface,              \* shared-memory interface and its handoff history
    calls,                       \* number of public-method calls so far
    last_call,                   \* the last public-method call and its result
    rx                           \* receive_iq_frame read by read (RecvSpec)

vars == << data_interface, receiver_connection_status, socket_inst, ctr_iface_socket,
           next_sock, ctr_iface_thread_lock, M, iq_header, iq_samples,
           daq_center_freq, daq_rx_gain, daq_agc, data_que, threads, ctr_wire,
           ctr_acks, data_wire, in_shmem_iface, calls, last_call, rx >>

\* The object's fields as one record, on which the methods are operators.
Self ==
    [ data_interface |-> data_interface,
      status |-> receiver_connection_status,
      socket_inst |-> socket_inst,
      ctr_iface_socket |-> ctr_iface_socket,
      next_sock |-> next_sock,
      M |-> M,
      iq_header |-> iq_header,
      iq_samples |-> iq_samples,
      daq_center_freq |-> daq_center_freq,
      daq_rx_gain |-> daq_rx_gain,
      daq_agc |-> daq_agc,
      data_que |-> data_que,
      threads |-> threads,
      ctr_wire |-> ctr_wire,
      data_wire |-> data_wire,
      in_shmem_iface |-> in_shmem_iface ]

Commit(s) ==
    /\ data_interface' = s.data_interface
    /\ receiver_connection_status' = s.status
    /\ socket_inst' = s.socket_inst
    /\ ctr_iface_socket' = s.ctr_iface_socket
    /\ next_sock' = s.next_sock
    /\ M' = s.M
    /\ iq_header' = s.iq_header
    /\ iq_samples' = s.iq_samples
    /\ daq_center_freq' = s.daq_center_freq
    /\ daq_rx_gain' = s.daq_rx_gain
    /\ daq_agc' = s.daq_agc
    /\ data_que' = s.data_que
    /\ threads' = s.threads
    /\ ctr_wire' = s.ctr_wire
    /\ data_wire' = s.data_wire
    /\ in_shmem_iface' = s.in_shmem_iface

\* Result of a method: the object after it, whether it raised, what it returned,
\* and whether an exception was caught inside it.
Ok(s, ret) == [s |-> s, raised |-> FALSE, ret |-> ret, caught |-> FALSE]
Raise(s) == [s |-> s, raised |-> TRUE, ret |-> "raised", caught |-> FALSE]
RaiseOSError(s) == [s |-> s, raised |-> TRUE, ret |-> "OSError", caught |-> FALSE]  \* of a socket
Caught(s, ret) == [s |-> s, raised |-> FALSE, ret |-> ret, caught |-> TRUE]

\* socket.socket(): a fresh, unconnected handle.
NewDataSocket(s) ==
    [s EXCEPT !.socket_inst = [id |-> s.next_sock, conn |-> FALSE],
              !.next_sock = @ + 1]
NewCtrSocket(s) ==
    [s EXCEPT !.ctr_iface_socket = [id |-> s.next_sock, conn |-> FALSE],
              !.next_sock = @ + 1]

\* ------------------------------------------------------------ command frames
\* A frame is opcode + payload + bytearray(pad); its length is what the socket gets.
Frame(op, values, payloadBytes, pad) ==
    [op |-> op, values |-> values, payloadBytes |-> payloadBytes, pad |-> pad]
FrameLen(f) == OpcodeSize + f.payloadBytes + f.pad

\* sys.getsizeof of a bytes object of n bytes.
GetSizeOf(n) == BytesObjectOverhead + n

InitFrame == Frame("INIT", << >>, 0, InitPad)
ExitFrame == Frame("EXIT", << >>, 0, InitPad)
FreqFrame(center_freq) == Frame("FREQ", <<center_freq>>, PackQSize, FreqPad)
GainFrame(gain, m) ==
    Frame("GAIN", [i \in 1..m |-> gain * 10], PackISize * m, FrameSize - (m + 1) * 4)
AgcFrame == Frame("AGC ", << >>, 0, FrameSize - GetSizeOf(OpcodeSize))

\* A submission that runs the send of ctr_iface_communication in the caller.
RunInCaller(s, msg_bytes) ==
    [s EXCEPT !.threads = Append(@, [frame |-> msg_bytes, pc |-> "recv",
                                     call |-> calls + 1]),
              !.ctr_wire = Append(@, [frame |-> msg_bytes, by |-> Len(s.threads) + 1,
                                      sock |-> s.ctr_iface_socket.id])]

\* _thread.start_new_thread(self.ctr_iface_communication, (msg_bytes,)); the
\* interpreter is taken to have room for the thread.
StartNewThread(s, msg_bytes) ==
    [s EXCEPT !.threads = Append(@, [frame |-> msg_bytes, pc |-> "acquire",
                                     call |-> calls + 1])]

\* --------------------------------------------------------- configuration calls
CtrIfaceInit(s) ==
    IF s.status
    THEN Ok(StartNewThread(s, InitFrame), "None")
    ELSE Ok(s, "None")

\* A set_center_freq that stores the frequency before it tests the connection.
SetCenterFreqStoresFirst(s, center_freq) ==
    LET s1 == [s EXCEPT !.daq_center_freq = center_freq]
    IN  IF s.status
        THEN IF center_freq < 0
             THEN Raise(s1)
             ELSE Ok(StartNewThread(s1, FreqFrame(center_freq)), "None")
        ELSE Ok(s1, "None")

SetCenterFreq(s, center_freq) ==
    IF s.status
    THEN LET s1 == [s EXCEPT !.daq_center_freq = center_freq]
         IN  IF center_freq < 0                       \* pack("Q", ...) of a negative
             THEN Raise(s1)
             ELSE Ok(StartNewThread(s1, FreqFrame(center_freq)), "None")
    ELSE Ok(s, "None")

SetIfAgc(s) ==
    IF s.status
    THEN LET s1 == [s EXCEPT !.daq_rx_gain = AUTO_GAIN_VALUE, !.daq_agc = TRUE]
         IN  IF AgcFrame.pad < 0                      \* bytearray of a negative
             THEN Raise(s1)
             ELSE Ok(StartNewThread(s1, AgcFrame), "None")
    ELSE Ok(s, "None")

SetIfGain(s, gain) ==
    IF gain = AUTO_GAIN_VALUE
    THEN SetIfAgc(s)
    ELSE IF s.status
         THEN LET s1 == [s EXCEPT !.daq_rx_gain = gain, !.daq_agc = FALSE]
                  msg == GainFrame(gain, s.M)
              IN  IF (s.M > 0 /\ gain * 10 < 0)       \* pack("I" * M, ...) of a negative
                     \/ msg.pad < 0                   \* bytearray of a negative
                  THEN Raise(s1)
                  ELSE Ok(StartNewThread(s1, msg), "None")
         ELSE Ok(s, "None")

\* ------------------------------------------------------------ stream receive
\* receive_iq_frame at the granularity of one frame: the header read, the decode,
\* the payload read and the conversion.  fp names the read that raises, if any.
PayloadSize(h) == h.cpi * h.chs * 2 * (h.depth \div 8)

\* frombuffer/view of n bytes as complex64, reshaped to (chs, cpi), raises unless
\* the bytes are exactly chs * cpi items.
ReshapeFails(n, h) == n % ComplexSize # 0 \/ n \div ComplexSize # h.chs * h.cpi

ReceiveIqFrame(s, hdr, fp) ==
    IF fp = "recv_header" \/ ~s.socket_inst.conn
    THEN RaiseOSError(s)
    ELSE LET s1 == [s EXCEPT !.iq_header = hdr]
             n == PayloadSize(hdr)
         IN  IF n > 0
             THEN IF fp = "recv_payload"
                  THEN RaiseOSError(s1)
                  ELSE IF ReshapeFails(n, hdr)
                  THEN Raise(s1)
                  ELSE Ok([s1 EXCEPT !.iq_samples = <<hdr.chs, hdr.cpi>>], "frame")
             ELSE Ok(s1, "0")

\* ------------------------------------------------------------------ connect
\* A replay that issues the center frequency before INIT.
ReplayConfigFreqFirst(s) ==
    LET r4 == SetCenterFreq(s, s.daq_center_freq)
    IN  IF r4.raised
        THEN r4
        ELSE SetIfGain(CtrIfaceInit(r4.s).s, r4.s.daq_rx_gain)

\* ctr_iface_init(), set_center_freq(daq_center_freq), set_if_gain(daq_rx_gain).
ReplayConfig(s) ==
    LET r4 == CtrIfaceInit(s)
        r5 == SetCenterFreq(r4.s, r4.s.daq_center_freq)
    IN  IF r5.raised
        THEN r5
        ELSE SetIfGain(r5.s, r5.s.daq_rx_gain)

\* The try block of eth_connect.
ConnectBody(s, in) ==
    IF s.status
    THEN Ok(s, "None")
    ELSE LET d == IF s.data_interface = "eth"
                  THEN IF in.fp = "data_connect" \/ s.socket_inst.conn
                       THEN RaiseOSError(s)
                       ELSE LET s1 == [s EXCEPT !.socket_inst.conn = TRUE]
                            IN  IF in.fp = "streaming"
                                THEN RaiseOSError(s1)
                                ELSE LET s2 == [s1 EXCEPT !.data_wire = Append(@, "streaming")]
                                         r == ReceiveIqFrame(s2, in.hdr, in.fp)
                                     IN  IF r.raised
                                         THEN r
                                         ELSE Ok([r.s EXCEPT !.M = r.s.iq_header.chs], "None")
                  ELSE Ok(s, "None")
         IN  IF d.raised
             THEN d
             ELSE IF in.fp = "ctr_connect" \/ d.s.ctr_iface_socket.conn
                  THEN RaiseOSError(d.s)
                  ELSE ReplayConfig([d.s EXCEPT !.ctr_iface_socket.conn = TRUE,
                                                !.status = TRUE])

\* An except branch that re-instantiates the data socket only.
EthConnectKeepsCtrSocket(s, in) ==
    LET b == ConnectBody(s, in)
    IN  IF b.raised
        THEN Caught(NewDataSocket([b.s EXCEPT !.status = FALSE]), "-1")
        ELSE Ok([b.s EXCEPT !.data_que = Append(@, "conn-ok")], "None")

EthConnect(s, in) ==
    LET b == ConnectBody(s, in)
    IN  IF b.raised
        THEN Caught(NewCtrSocket(NewDataSocket([b.s EXCEPT !.status = FALSE])), "-1")
        ELSE Ok([b.s EXCEPT !.data_que = Append(@, "conn-ok")], "None")

\* -------------------------------------------------------------------- close
\* destory_sm_buffer(): "failed" is an interface whose init_ok is False, destroyed
\* at construction; "destroyed" is one that had initialised.
DestroySmBuffer(s) ==
    [s EXCEPT !.in_shmem_iface.state = IF @ = "failed" THEN "failed" ELSE "destroyed"]

CloseBody(s, fp) ==
    IF s.status
    THEN LET d == IF s.data_interface = "eth"
                  THEN IF fp = "data_send" \/ ~s.socket_inst.conn
                       THEN RaiseOSError(s)
                       ELSE LET s1 == [s EXCEPT !.data_wire = Append(@, "q"),
                                                !.socket_inst.conn = FALSE]
                            IN  IF fp = "data_close" THEN RaiseOSError(s1) ELSE Ok(NewDataSocket(s1), "None")
                  ELSE Ok(s, "None")
         IN  IF d.raised
             THEN d
             ELSE IF fp = "ctr_send" \/ ~d.s.ctr_iface_socket.conn
                  THEN RaiseOSError(d.s)
                  ELSE LET s2 == [d.s EXCEPT
                                    !.ctr_wire = Append(@, [frame |-> ExitFrame, by |-> 0,
                                                            sock |-> d.s.ctr_iface_socket.id]),
                                    !.ctr_iface_socket.conn = FALSE]
                       IN  IF fp = "ctr_close" THEN RaiseOSError(s2) ELSE Ok(NewCtrSocket(s2), "None")
    ELSE Ok(s, "None")

EthClose(s, fp) ==
    LET b == CloseBody(s, fp)
    IN  IF b.raised
        THEN Caught(b.s, "-1")
        ELSE LET s1 == [b.s EXCEPT !.status = FALSE, !.data_que = Append(@, "disconn-ok")]
             IN  Ok(IF s1.data_interface = "shmem" THEN DestroySmBuffer(s1) ELSE s1, "0")

\* ------------------------------------------------------------ get_iq_online
\* The shared-memory branch: wait_buff_free, the read of the granted buffer, the
\* copy into iq_samples and send_ctr_buff_ready.
Bump(f, i) == [f EXCEPT ![i] = @ + 1]

\* wait_buff_free() hands over buffer 0 or buffer 1; any other value is a signal.
WaitBuffFree(s, idx) ==
    [s EXCEPT !.in_shmem_iface.waits = @ + 1,
              !.in_shmem_iface.granted = IF idx \in {0, 1} THEN Bump(@, idx) ELSE @]

\* A test that takes only the negative values for the terminate signal.
IsTerminateNegativeOnly(active_buff_index) == active_buff_index < 0

IsTerminate(active_buff_index) == active_buff_index < 0 \/ active_buff_index > 1

ShmemFrame(s, in) ==
    LET active_buff_index == in.idx
        s0 == WaitBuffFree(s, active_buff_index)
    IN  IF IsTerminate(active_buff_index)
        THEN Ok(s0, "-1")
        ELSE LET s1 == [s0 EXCEPT !.in_shmem_iface.read = Bump(@, active_buff_index),
                                  !.iq_header = in.hdr,
                                  !.M = IF s.M = 0 THEN in.hdr.chs ELSE s.M]
             IN  IF ReshapeFails(PayloadSize(in.hdr), in.hdr)
                 THEN Raise(s1)
                 ELSE Ok([s1 EXCEPT !.iq_samples = <<in.hdr.chs, in.hdr.cpi>>,
                                    !.in_shmem_iface.ready = Bump(@, active_buff_index)],
                         "None")

EthFrame(s, in) ==
    IF in.fp = "send" \/ ~s.socket_inst.conn
    THEN RaiseOSError(s)
    ELSE LET r == ReceiveIqFrame([s EXCEPT !.data_wire = Append(@, "IQDownload")],
                                 in.hdr, in.fp)
         IN  IF r.raised
             THEN r
             ELSE Ok([r.s EXCEPT !.iq_samples = IF r.ret = "0" THEN << >> ELSE @], "None")

\* A get_iq_online that goes on to the frame although eth_connect failed.
GetIqOnlineIgnoresFailure(s, cin, in) ==
    LET c == IF s.status THEN Ok(s, "None") ELSE EthConnect(s, cin)
        r == IF s.data_interface = "eth" THEN EthFrame(c.s, in) ELSE ShmemFrame(c.s, in)
    IN  [r EXCEPT !.caught = c.caught]

GetIqOnline(s, cin, in) ==
    LET c == IF s.status THEN Ok(s, "None") ELSE EthConnect(s, cin)
    IN  IF c.ret = "-1"
        THEN c
        ELSE IF s.data_interface = "eth" THEN EthFrame(c.s, in) ELSE ShmemFrame(c.s, in)

\* ------------------------------------------------------- environment inputs
\* Only the inputs the call can consume are enumerated; the others are fixed.
ConnectIn(fp, hdr) == [fp |-> fp, hdr |-> hdr]

ConnectInputs(s) ==
    IF s.status
    THEN {ConnectIn("none", NoHeader)}
    ELSE IF s.data_interface = "eth"
         THEN {ConnectIn(fp, NoHeader) : fp \in {"data_connect", "streaming", "recv_header"}}
              \cup {ConnectIn(fp, h) : fp \in {"recv_payload", "ctr_connect", "none"}, h \in Headers}
         ELSE {ConnectIn(fp, NoHeader) : fp \in {"ctr_connect", "none"}}

\* What wait_buff_free() can return: an interface that failed to initialise or was
\* destroyed hands over no buffer.
WaitResults(s) ==
    IF s.in_shmem_iface.state = "ok" THEN BuffIndexes ELSE BuffIndexes \ {0, 1}

FrameIn(fp, hdr, idx) == [fp |-> fp, hdr |-> hdr, idx |-> idx]

FrameInputs(s) ==
    IF s.data_interface = "eth"
    THEN {FrameIn(fp, NoHeader, 0) : fp \in {"send", "recv_header"}}
         \cup {FrameIn(fp, h, 0) : fp \in {"recv_payload", "none"}, h \in Headers}
    ELSE {FrameIn("none", h, i) : h \in Headers, i \in WaitResults(s)}

CloseFailPoints == {"none", "data_send", "data_close", "ctr_send", "ctr_close"}

\* --------------------------------------------------------------------- Init
NoCounts == [i \in BuffIndexes |-> 0]

\* No receive_iq_frame is being followed read by read.
RxIdle == [pc |-> "idle"]

InitFields ==
    /\ data_interface \in {"eth", "shmem"}
    /\ receiver_connection_status = FALSE
    /\ socket_inst = [id |-> 1, conn |-> FALSE]
    /\ ctr_iface_socket = [id |-> 2, conn |-> FALSE]
    /\ next_sock = 3
    /\ ctr_iface_thread_lock = 0
    /\ M = 0
    /\ iq_header = NoHeader
    /\ iq_samples = <<0>>
    /\ daq_center_freq = DefaultCenterFreq
    /\ daq_rx_gain = DefaultRxGain
    /\ daq_agc = FALSE
    /\ data_que = << >>
    /\ threads = << >>
    /\ ctr_wire = << >>
    /\ ctr_acks = [a \in Acks |-> 0]
    /\ data_wire = << >>
    /\ \E init_ok \in BOOLEAN :
          in_shmem_iface =
              [state |-> IF data_interface = "eth" THEN "absent"
                         ELSE IF init_ok THEN "ok" ELSE "failed",
               waits |-> 0, granted |-> NoCounts, read |-> NoCounts, ready |-> NoCounts]
    /\ calls = 0
    /\ last_call = [op |-> "__init__", ret |-> "None", caught |-> FALSE]

Init == InitFields /\ rx = RxIdle

\* ------------------------------------------------- the caller's thread: calls
\* The caller may make another call; tested before the inputs are enumerated.
CanCall == calls < MaxCalls

Call(op, r) ==
    /\ Len(r.s.threads) <= MaxThreads
    /\ Commit(r.s)
    /\ calls' = calls + 1
    /\ last_call' = [op |-> op, ret |-> r.ret, caught |-> r.caught]
    /\ UNCHANGED << ctr_iface_thread_lock, ctr_acks, rx >>

eth_connect ==
    /\ CanCall
    /\ \E cin \in ConnectInputs(Self) : Call("eth_connect", EthConnect(Self, cin))

eth_close ==
    /\ CanCall
    /\ \E fp \in CloseFailPoints : Call("eth_close", EthClose(Self, fp))

get_iq_online ==
    /\ CanCall
    /\ \E cin \in ConnectInputs(Self) :
          \E in \in FrameInputs(Self) : Call("get_iq_online", GetIqOnline(Self, cin, in))

ctr_iface_init == CanCall /\ Call("ctr_iface_init", CtrIfaceInit(Self))

set_center_freq ==
    /\ CanCall
    /\ \E f \in Freqs : Call("set_center_freq", SetCenterFreq(Self, f))

set_if_gain ==
    /\ CanCall
    /\ \E g \in Gains : Call("set_if_gain", SetIfGain(Self, g))

set_if_agc == CanCall /\ Call("set_if_agc", SetIfAgc(Self))

\* ------------------------------------- command threads: ctr_iface_communication
ThreadIds == DOMAIN threads
SetPc(t, pc) == [threads EXCEPT ![t].pc = pc]

\* A test of the status that takes every acknowledgement for a success.
IsFinishedAlways(status) == TRUE

\* status == "FNSD", status being reply_msg_bytes[0:4].decode().
IsFinished(status) == status = "FNSD"
UnchangedByThread ==
    UNCHANGED << data_interface, receiver_connection_status, socket_inst, ctr_iface_socket,
                 next_sock, M, iq_header, iq_samples, daq_center_freq, daq_rx_gain,
                 daq_agc, data_wire, in_shmem_iface, calls, last_call, rx >>

\* An acquire that does not wait for the holder.
CanAcquireHeldLock(lock) == TRUE

\* Lock.acquire(): blocks while the lock is held.
CanAcquire(lock) == lock = 0

\* acquire() and self.ctr_iface_socket.send(msg_bytes), on the handle the field holds
\* now.  Taking the lock is invisible to every other thread until the send, so the
\* two are one step.  An exception ends the thread where it is, the lock still held.
thread_send(t) ==
    /\ threads[t].pc = "acquire"
    /\ CanAcquire(ctr_iface_thread_lock)
    /\ ctr_iface_thread_lock' = t
    /\ \E io_error \in BOOLEAN :
          IF io_error \/ ~ctr_iface_socket.conn
          THEN /\ threads' = SetPc(t, "dead")
               /\ UNCHANGED ctr_wire
          ELSE /\ threads' = SetPc(t, "recv")
               /\ ctr_wire' = Append(ctr_wire, [frame |-> threads[t].frame, by |-> t,
                                                sock |-> ctr_iface_socket.id])
    /\ UNCHANGED << data_que, ctr_acks >>
    /\ UnchangedByThread

\* self.ctr_iface_socket.recv(128), release(), and the put of config-ok when the
\* status is "FNSD".  Nothing another thread can see lies between the recv and the
\* release; the put follows the release at once, and the model takes it in the same
\* step, so the queue holds the events in the order in which the round trips end.
thread_recv(t) ==
    /\ threads[t].pc = "recv"
    /\ \E io_error \in BOOLEAN, reply_msg_bytes \in Acks :
          IF io_error \/ ~ctr_iface_socket.conn
          THEN /\ threads' = SetPc(t, "dead")
               /\ UNCHANGED << ctr_iface_thread_lock, data_que, ctr_acks >>
          ELSE /\ threads' = SetPc(t, "done")
               /\ ctr_acks' = [ctr_acks EXCEPT ![reply_msg_bytes] = @ + 1]
               /\ ctr_iface_thread_lock' = 0
               /\ data_que' = IF IsFinished(reply_msg_bytes)
                              THEN Append(data_que, "config-ok")
                              ELSE data_que
    /\ UNCHANGED ctr_wire
    /\ UnchangedByThread

ctr_iface_communication ==
    \E t \in ThreadIds :
        \/ thread_send(t)
        \/ thread_recv(t)

Next ==
    \/ eth_connect
    \/ eth_close
    \/ get_iq_online
    \/ ctr_iface_init
    \/ set_center_freq
    \/ set_if_gain
    \/ set_if_agc
    \/ ctr_iface_communication

Spec == Init /\ [][Next]_vars

\* --------------------------------------------- receive_iq_frame, read by read
\* The peer has sent a header, its payload and possibly more, and may have closed
\* the connection after any byte.  A header is its three fields followed by zeros;
\* payload byte i is 100 + i and trailing byte i is 200 + i.
Min(a, b) == IF a < b THEN a ELSE b
EncodeHeader(h) == <<h.chs, h.cpi, h.depth>> \o [i \in 1..(header_size - 3) |-> 0]
decode_header(iq_header_bytes) ==
    Header(iq_header_bytes[1], iq_header_bytes[2], iq_header_bytes[3])
PayloadBytes(h) == [i \in 1..PayloadSize(h) |-> 100 + i]
TrailingBytes(n) == [i \in 1..n |-> 200 + i]
RxHeaders == {h \in Headers : PayloadSize(h) <= MaxPayload}

RxStart(h, trailing, sent, closed) ==
    [pc |-> "header",
     hdr |-> h,                                  \* the header the peer sent
     stream |-> SubSeq(EncodeHeader(h) \o PayloadBytes(h) \o TrailingBytes(trailing), 1, sent),
     closed |-> closed,                          \* the peer closed after the stream
     iq_header_bytes |-> << >>,
     iq_header |-> NoHeader,
     total_bytes_to_receive |-> 0,
     iq_data_bytes |-> << >>,
     total_received_bytes |-> 0,
     iq_samples |-> << >>,
     consumed |-> 0,                             \* bytes taken from the stream
     zero_reads |-> 0]                           \* reads that returned 0

RxStarts ==
    { RxStart(h, n, header_size + PayloadSize(h) + n, closed) :
          h \in RxHeaders, n \in 0..MaxTrailing, closed \in BOOLEAN }
    \cup UNION { { RxStart(h, 0, sent, TRUE) : sent \in 0..(header_size + PayloadSize(h)) } :
                  h \in RxHeaders }

RecvInit == InitFields /\ data_interface = "eth" /\ rx \in RxStarts

\* socket.recv_into(view, nbytes): at least one byte and at most nbytes of what the
\* peer has sent; 0 once the peer has closed and nothing is left; otherwise it blocks.
RecvInto(r, nbytes) ==
    IF Len(r.stream) > 0 THEN 1..Min(Len(r.stream), nbytes)
    ELSE IF r.closed /\ r.zero_reads < MaxZeroReads THEN {0} ELSE {}

Taken(r, recv_bytes_count) == SubSeq(r.stream, 1, recv_bytes_count)
Rest(r, recv_bytes_count) == SubSeq(r.stream, recv_bytes_count + 1, Len(r.stream))

\* One pass of the header loop; the pass that completes the header decodes it.
receive_header ==
    /\ rx.pc = "header"
    /\ \/ rx' = [rx EXCEPT !.pc = "raised"]                       \* recv_into raises
       \/ \E recv_bytes_count \in RecvInto(rx, header_size - rx.total_received_bytes) :
             LET bytes == rx.iq_header_bytes \o Taken(rx, recv_bytes_count)
                 total == rx.total_received_bytes + recv_bytes_count
                 r1 == [rx EXCEPT !.stream = Rest(rx, recv_bytes_count),
                                  !.consumed = @ + recv_bytes_count,
                                  !.zero_reads = IF recv_bytes_count = 0 THEN @ + 1 ELSE @,
                                  !.iq_header_bytes = bytes,
                                  !.total_received_bytes = total]
             IN  rx' = IF total < header_size
                       THEN r1
                       ELSE LET h == decode_header(bytes)
                            IN  IF PayloadSize(h) > 0
                                THEN [r1 EXCEPT !.iq_header = h,
                                                !.total_bytes_to_receive = PayloadSize(h),
                                                !.total_received_bytes = 0,
                                                !.pc = "payload"]
                                ELSE [r1 EXCEPT !.iq_header = h, !.pc = "returned"]
    /\ UNCHANGED << data_interface, receiver_connection_status, socket_inst,
                    ctr_iface_socket, next_sock, ctr_iface_thread_lock, M, iq_header,
                    iq_samples, daq_center_freq, daq_rx_gain, daq_agc, data_que, threads,
                    ctr_wire, ctr_acks, data_wire, in_shmem_iface, calls, last_call >>

\* One pass of the payload loop; the pass that completes the payload converts it.
receive_payload ==
    /\ rx.pc = "payload"
    /\ \/ rx' = [rx EXCEPT !.pc = "raised"]                       \* recv_into raises
       \/ \E recv_bytes_count \in RecvInto(rx, receiver_buffer_size) :
             LET bytes == rx.iq_data_bytes \o Taken(rx, recv_bytes_count)
                 total == rx.total_received_bytes + recv_bytes_count
                 r1 == [rx EXCEPT !.stream = Rest(rx, recv_bytes_count),
                                  !.consumed = @ + recv_bytes_count,
                                  !.zero_reads = IF recv_bytes_count = 0 THEN @ + 1 ELSE @,
                                  !.iq_data_bytes = bytes,
                                  !.total_received_bytes = total]
             IN  rx' = IF total < rx.total_bytes_to_receive
                       THEN r1
                       ELSE IF ReshapeFails(rx.total_bytes_to_receive, rx.iq_header)
                            THEN [r1 EXCEPT !.pc = "raised"]
                            ELSE [r1 EXCEPT
                                    !.iq_samples = SubSeq(bytes, 1, rx.total_bytes_to_receive),
                                    !.pc = "returned"]
    /\ UNCHANGED << data_interface, receiver_connection_status, socket_inst,
                    ctr_iface_socket, next_sock, ctr_iface_thread_lock, M, iq_header,
                    iq_samples, daq_center_freq, daq_rx_gain, daq_agc, data_que, threads,
                    ctr_wire, ctr_acks, data_wire, in_shmem_iface, calls, last_call >>

RecvNext == receive_header \/ receive_payload

RecvSpec == RecvInit /\ [][RecvNext]_vars

\* ------------------------------------------------------------------ claims
InFlight(t) == threads[t].pc = "recv"       \* frame sent, acknowledgement not yet read
Completes(t) == threads[t].pc = "recv" /\ threads'[t].pc = "done"   \* a round trip ends
RECURSIVE CountOf(_, _)
CountOf(q, e) ==
    IF q = << >> THEN 0 ELSE (IF q[1] = e THEN 1 ELSE 0) + CountOf(Tail(q), e)
CallReturned(op) == calls' = calls + 1 /\ last_call'.op = op
ThreadsOfCall(c) == {t \in ThreadIds : threads[t].call = c}
Rank(op) == CASE op = "INIT" -> 1 [] op = "FREQ" -> 2 [] OTHER -> 3

\* C1: at most one command thread is between sending its frame and receiving its
\* acknowledgement; a thread sends only when no other round trip is in flight.
C1_OneRoundTripInFlight == Cardinality({t \in ThreadIds : InFlight(t)}) <= 1

\* A round trip is in flight while another submission waits for the lock.
C1_Witness ==
    \E t, u \in ThreadIds :
        InFlight(t) /\ threads[u].pc = "acquire" /\ ctr_iface_thread_lock = t

\* C2: every write to the control socket, the EXIT frame of close() included,
\* happens only while no command's round trip is in flight on that socket.
C2_WritesOnlyWhenIdle ==
    [][Len(ctr_wire') > Len(ctr_wire) => \A t \in ThreadIds : ~InFlight(t)]_vars

\* C3: every command frame handed to the control socket is exactly 128 bytes long.
C3_FramesAre128Bytes ==
    \A i \in DOMAIN ctr_wire : FrameLen(ctr_wire[i].frame) = FrameSize

\* C4: a set_gain made while M is 0 is rejected: no GAIN frame built for zero
\* channels is started or sent.
C4_NoGainFrameForZeroChannels ==
    /\ \A t \in ThreadIds :
          threads[t].frame.op = "GAIN" => Len(threads[t].frame.values) > 0
    /\ \A i \in DOMAIN ctr_wire :
          ctr_wire[i].frame.op = "GAIN" => Len(ctr_wire[i].frame.values) > 0

\* C5: after close() returns the client is Disconnected, whatever failed in it.
C5_CloseLeavesDisconnected ==
    last_call.op = "eth_close" => ~receiver_connection_status

\* C6: every call of close() puts a disconn-ok event on the queue.
C6_CloseEnqueuesDisconnOk ==
    [][CallReturned("eth_close") => data_que' = Append(data_que, "disconn-ok")]_vars

\* C7: when a step of connect() raises, connect() returns failure with the client
\* Disconnected, both socket handles replaced by fresh unconnected ones, and no
\* conn-ok event enqueued.
C7_FailedConnectRollsBack ==
    [][((CallReturned("eth_connect") \/ CallReturned("get_iq_online")) /\ last_call'.caught)
        => /\ ~receiver_connection_status'
           /\ socket_inst'.id >= next_sock /\ ~socket_inst'.conn
           /\ ctr_iface_socket'.id >= next_sock /\ ~ctr_iface_socket'.conn
           /\ socket_inst'.id # ctr_iface_socket'.id
           /\ last_call'.ret = "-1"
           /\ data_que' = data_que]_vars

\* connect() raised while issuing the gain, after INIT and FREQ had been started.
C7_Witness ==
    /\ last_call.op = "eth_connect"
    /\ last_call.caught
    /\ ThreadsOfCall(calls) # {}

\* C8 as stated: the frames of one connect() are written to the control socket in
\* the order INIT, FREQ, GAIN or AGC.
C8_WireOrderIsInitFreqGain ==
    \A i, j \in DOMAIN ctr_wire :
        (/\ i < j
         /\ ctr_wire[i].by # 0
         /\ ctr_wire[j].by # 0
         /\ threads[ctr_wire[i].by].call = threads[ctr_wire[j].by].call)
        => Rank(ctr_wire[i].frame.op) <= Rank(ctr_wire[j].frame.op)

\* C8 as amended: a successful connect() starts the INIT thread first, then the FREQ
\* thread, then the GAIN or AGC thread; the threads of one call are always started
\* in that order, whatever order they later write in.
C8_SubmissionOrderIsInitFreqGain ==
    /\ \A t, u \in ThreadIds :
          (t < u /\ threads[t].call = threads[u].call)
          => Rank(threads[t].frame.op) < Rank(threads[u].frame.op)
    /\ (last_call.op = "eth_connect" /\ last_call.ret = "None" /\ Len(threads) > 0
        /\ threads[Len(threads)].call = calls)
       => /\ Cardinality(ThreadsOfCall(calls)) = 3
          /\ {threads[t].frame.op : t \in ThreadsOfCall(calls)} \in
                {{"INIT", "FREQ", "GAIN"}, {"INIT", "FREQ", "AGC "}}

\* A successful connect() whose first frame on the control socket is not INIT.
C8_Witness ==
    /\ last_call.op = "eth_connect"
    /\ last_call.ret = "None"
    /\ Cardinality(ThreadsOfCall(calls)) = 3
    /\ Len(ctr_wire) > 0
    /\ ctr_wire[1].frame.op # "INIT"

\* C9: in shared-memory mode, when wait_buff_free() returns the terminate signal
\* (a wait that grants no buffer), get_iq_online() returns -1 without reading a
\* buffer, without changing M, the header or the sample frame, and without
\* signalling buffer-ready.
C9_TerminateTouchesNothing ==
    [][(/\ CallReturned("get_iq_online")
        /\ in_shmem_iface'.waits = in_shmem_iface.waits + 1
        /\ in_shmem_iface'.granted = in_shmem_iface.granted)
        => /\ last_call'.ret = "-1"
           /\ in_shmem_iface'.read = in_shmem_iface.read
           /\ in_shmem_iface'.ready = in_shmem_iface.ready
           /\ M' = M
           /\ iq_header' = iq_header
           /\ iq_samples' = iq_samples]_vars

\* get_iq_online() got the terminate signal while connected in shared-memory mode.
C9_Witness ==
    /\ data_interface = "shmem"
    /\ receiver_connection_status
    /\ last_call.op = "get_iq_online"
    /\ last_call.ret = "-1"
    /\ in_shmem_iface.waits > 0
    /\ \A i \in BuffIndexes : in_shmem_iface.granted[i] = 0

\* C10: every buffer granted by wait_buff_free() is read and then signalled ready
\* exactly once, and no other buffer is read or signalled, also when the header or
\* the payload of the granted buffer cannot be converted.
C10_ReadyOncePerGrant ==
    \A i \in BuffIndexes :
        /\ in_shmem_iface.ready[i] = in_shmem_iface.granted[i]
        /\ in_shmem_iface.read[i] = in_shmem_iface.granted[i]

\* C11: a command round trip that completes with the status "FNSD" puts exactly one
\* config-ok event on the queue; one that completes with any other status puts
\* nothing; in both cases the connection status is left as it was.  So the queue
\* holds as many config-ok events as acknowledgements with "FNSD" have been read.
C11_ConfigOkIffFinished ==
    /\ [][\A t \in ThreadIds :
            Completes(t) =>
                /\ data_que' = IF ctr_acks'["FNSD"] = ctr_acks["FNSD"] + 1
                               THEN Append(data_que, "config-ok")
                               ELSE data_que
                /\ receiver_connection_status' = receiver_connection_status]_vars
    /\ [](CountOf(data_que, "config-ok") = ctr_acks["FNSD"])

\* One round trip ended with "FNSD" and another with "FAIL" while Ready.
C11_Witness ==
    /\ receiver_connection_status
    /\ ctr_acks["FNSD"] > 0
    /\ ctr_acks["FAIL"] > 0

\* C12: a stream-mode frame receive ends: once a read of the data socket has
\* returned zero bytes (the peer closed the connection), the receive has failed
\* with ConnectionLost and reads no more.
C12_ZeroReadEndsReceive == rx.pc # "idle" /\ rx.zero_reads > 0 => rx.pc = "raised"

\* C13: however the stream is split into reads, a frame receive that returns has
\* taken exactly header_size + payload_size bytes from the stream and yields the
\* header and the payload that were sent.
C13_ConsumesExactlyOneFrame ==
    rx.pc = "returned" =>
        /\ rx.consumed = header_size + PayloadSize(rx.hdr)
        /\ rx.iq_header = rx.hdr
        /\ rx.iq_samples = PayloadBytes(rx.hdr)

\* C14: get_iq_online() called while Disconnected makes one connection attempt; when
\* the attempt fails it returns -1 without sending "IQDownload" on the data socket
\* and without waiting on the shared-memory interface; when it succeeds, one conn-ok
\* event is on the queue and the client is Ready.
C14_FailedConnectGivesNoFrame ==
    [][(CallReturned("get_iq_online") /\ ~receiver_connection_status)
        => IF last_call'.caught
           THEN /\ last_call'.ret = "-1"
                /\ next_sock' = next_sock + 2
                /\ CountOf(data_wire', "IQDownload") = CountOf(data_wire, "IQDownload")
                /\ CountOf(data_wire', "streaming") <= CountOf(data_wire, "streaming") + 1
                /\ in_shmem_iface' = in_shmem_iface
                /\ data_que' = data_que
           ELSE /\ CountOf(data_que', "conn-ok") = CountOf(data_que, "conn-ok") + 1
                /\ CountOf(data_wire', "streaming") =
                      CountOf(data_wire, "streaming") + (IF data_interface = "eth" THEN 1 ELSE 0)
                /\ next_sock' = next_sock
                /\ receiver_connection_status']_vars

\* get_iq_online() returned -1 because its connection attempt failed, in shared-
\* memory mode with a live interface.
C14_Witness ==
    /\ last_call.op = "get_iq_online"
    /\ last_call.caught
    /\ last_call.ret = "-1"
    /\ data_interface = "shmem"
    /\ in_shmem_iface.state = "ok"

\* C15: an I/O failure on the data socket during get_iq_online() while Ready does
\* not come out of the call as an exception: the call returns a no-frame result and
\* the client is Disconnected afterwards.
C15_DataSocketFailureDisconnects ==
    [][(/\ CallReturned("get_iq_online")
        /\ receiver_connection_status
        /\ data_interface = "eth")
        => /\ last_call'.ret # "OSError"
           /\ CountOf(data_wire', "IQDownload") = CountOf(data_wire, "IQDownload")
                 => ~receiver_connection_status']_vars

\* C16: a configuration call (ctr_iface_init, set_center_freq, set_if_gain,
\* set_if_agc) returns without waiting for the control lock or an acknowledgement:
\* it can be made in every state, also while a command thread holds the lock with
\* its acknowledgement outstanding, and the call itself neither takes or gives back
\* the lock, nor writes to or reads from the control socket, nor moves a thread.
ConfigOps == {"ctr_iface_init", "set_center_freq", "set_if_gain", "set_if_agc"}
C16_ConfigCallDoesNotWait ==
    /\ [][(calls' = calls + 1 /\ last_call'.op \in ConfigOps)
           => /\ ctr_iface_thread_lock' = ctr_iface_thread_lock
              /\ ctr_wire' = ctr_wire
              /\ ctr_acks' = ctr_acks
              /\ data_que' = data_que
              /\ \A t \in ThreadIds : threads'[t] = threads[t]
              /\ \A t \in DOMAIN threads' \ ThreadIds : threads'[t].pc = "acquire"]_vars
    /\ []((calls < MaxCalls /\ Len(threads) < MaxThreads)
           => /\ ENABLED ctr_iface_init
              /\ ENABLED set_center_freq
              /\ ENABLED set_if_gain
              /\ ENABLED set_if_agc)

\* set_center_freq() has returned, its thread waiting for the lock, while an earlier
\* command holds the lock with its acknowledgement outstanding.
C16_Witness ==
    /\ last_call.op = "set_center_freq"
    /\ \E t, u \in ThreadIds :
          /\ threads[t].call < calls /\ InFlight(t) /\ ctr_iface_thread_lock = t
          /\ threads[u].call = calls /\ threads[u].pc = "acquire"

\* C17: a command thread that has taken the control lock gives it back, also when
\* its send or its recv raises: a thread that has ended does not hold the lock.
C17_EndedThreadHoldsNoLock ==
    \A t \in ThreadIds :
        threads[t].pc \in {"done", "dead"} => ctr_iface_thread_lock # t

\* C18: a command thread calls send and recv only on a connected control socket: a
\* thread that runs after close() or a failed connect() has replaced the socket
\* does not use the replacement.
C18_ThreadsUseConnectedSocket ==
    [][\A t \in ThreadIds :
          threads'[t].pc # threads[t].pc => ctr_iface_socket.conn]_vars

\* C19: a conn-ok event is put exactly when the client goes from Disconnected to
\* Ready: every step puts one conn-ok if it establishes the connection and none
\* otherwise, so connect() on a connected client puts none.
C19_ConnOkOncePerEstablishment ==
    [][CountOf(data_que', "conn-ok") =
         CountOf(data_que, "conn-ok")
           + (IF ~receiver_connection_status /\ receiver_connection_status' THEN 1 ELSE 0)]_vars

\* C20: in shared-memory mode, once close() has destroyed the shared-memory
\* interface, no step waits for a buffer, reads a buffer or signals buffer-ready on
\* it (the interface is never initialised again after construction).
ClosedAndDestroyed ==
    /\ data_interface = "shmem"
    /\ in_shmem_iface.state = "destroyed"
C20_DestroyedInterfaceIsNotUsed ==
    [][ClosedAndDestroyed =>
          /\ in_shmem_iface'.waits = in_shmem_iface.waits
          /\ in_shmem_iface'.read = in_shmem_iface.read
          /\ in_shmem_iface'.ready = in_shmem_iface.ready]_vars

\* C21: while the client is Disconnected, ctr_iface_init, set_center_freq,
\* set_if_gain and set_if_agc have no effect: the call starts no command thread,
\* writes nothing to the control socket and leaves the stored center frequency,
\* gain and AGC flag as they were.
C21_ConfigCallWhileDisconnectedIsNoOp ==
    [][(/\ calls' = calls + 1
        /\ last_call'.op \in ConfigOps
        /\ ~receiver_connection_status)
        => /\ threads' = threads
           /\ ctr_wire' = ctr_wire
           /\ daq_center_freq' = daq_center_freq
           /\ daq_rx_gain' = daq_rx_gain
           /\ daq_agc' = daq_agc
           /\ last_call'.ret = "None"
           /\ ~receiver_connection_status']_vars

\* set_center_freq() was called on a client that had been connected and is
\* Disconnected again; the stored frequency is still the one of construction.
C21_Witness ==
    /\ last_call.op = "set_center_freq"
    /\ ~receiver_connection_status
    /\ calls = 2
    /\ CountOf(data_que, "disconn-ok") + CountOf(data_que, "conn-ok") > 0
    /\ daq_center_freq = DefaultCenterFreq

====
